---- MODULE Spec2Model ----
(***************************************************************************)
(* pyQUEST: read classification, sequence counting, target library        *)
(* loading and exact-match mapping.                                        *)
(*                                                                         *)
(* A sequence is a tuple of one-character strings, so that the regular     *)
(* expressions of read_qc.py, str.strip and str.split act on characters.   *)
(* A Counter is a function from its keys to positive counts.               *)
(* A call that raises yields [raised |-> <exception class>]; a call that   *)
(* returns yields [raised |-> "none", value |-> <result>].                 *)
(***************************************************************************)
EXTENDS Integers, Sequences, FiniteSets, TLC

VARIABLES
    stats,           \* the LibraryIndependentStats accumulator
    reads,           \* Counter[str] of kept read sequences
    exclude_qcfail,  \* QC policy of the run (parse_* parameter)
    min_length,      \* minimum read length of the run
    fmt,             \* ReadFileFormat of the run
    error,           \* exception that ended the run, "none" while running
    call,            \* the most recent call: its operation, argument, result
    lib,             \* the loaded TargetLibrary, NoValue before it is loaded
    rows,            \* rows written to the library-dependent count file
    dep_stats,       \* the LibraryDependentStats returned by map_and_write
    report           \* the statistics written by write_stats, NoValue before

vars == <<stats, reads, exclude_qcfail, min_length, fmt, error, call, lib, rows, dep_stats,
          report>>

(***************************************************************************)
(* Bounds of the exploration.                                              *)
(***************************************************************************)
MaxSeqLen == 3
MaxReads == 2
MaxLines == 3
MaxArrayLen == 4
MaxCount == 3
MaxStream == 3

\* characters read sequences are drawn from: an upper-case base, a
\* lower-case base, an upper- and a lower-case ambiguity code, a non-DNA letter
Symbols == {"A", "c", "N", "n", "X"}

RECURSIVE SeqsUpTo(_, _)
SeqsUpTo(S, n) ==
    IF n = 0 THEN {<<>>}
    ELSE LET shorter == SeqsUpTo(S, n - 1)
         IN  shorter \cup {Append(s, c) : s \in {t \in shorter : Len(t) = n - 1}, c \in S}

RawSequences == SeqsUpTo(Symbols, MaxSeqLen)

Range(s) == {s[i] : i \in DOMAIN s}

NoValue == [none |-> TRUE]

Raise(kind) == [raised |-> kind, value |-> NoValue]
Return(v) == [raised |-> "none", value |-> v]

(***************************************************************************)
(* readers/read_qc.py                                                      *)
(***************************************************************************)
UC_LETTERS == <<"A", "C", "G", "T", "N", "R", "Y", "K", "M", "S", "W", "X">>
LC_LETTERS == <<"a", "c", "g", "t", "n", "r", "y", "k", "m", "s", "w", "x">>

\* str.lower on one character
lower(c) ==
    IF \E i \in DOMAIN UC_LETTERS : UC_LETTERS[i] = c
    THEN LC_LETTERS[CHOOSE i \in DOMAIN UC_LETTERS : UC_LETTERS[i] = c]
    ELSE c

NT_UC == {"A", "C", "G", "T"}
NT_LC == {lower(c) : c \in NT_UC}
AMB_NT_UC == {"N", "R", "Y", "K", "M", "S", "W"}
AMB_NT_LC == {lower(c) : c \in AMB_NT_UC}

\* the compiled pattern "[symbols]+"
get_alphabet_re(symbols, ignore_case) ==
    [symbols |-> symbols, ignore_case |-> ignore_case]

\* one character against the character class of the pattern
ClassMatch(pattern, c) ==
    IF pattern.ignore_case
    THEN \E s \in pattern.symbols : lower(s) = lower(c)
    ELSE c \in pattern.symbols

\* re.Pattern.fullmatch: the whole string is one or more class characters
fullmatch(pattern, seq) ==
    /\ Len(seq) > 0
    /\ \A i \in DOMAIN seq : ClassMatch(pattern, seq[i])

\* re.Pattern.search: some non-empty run of class characters exists
search(pattern, seq) ==
    \E i \in DOMAIN seq : ClassMatch(pattern, seq[i])

dna_re == get_alphabet_re(NT_UC \cup AMB_NT_UC, TRUE)
dna_masked_re == get_alphabet_re(NT_LC \cup AMB_NT_LC, FALSE)
dna_ambiguous_re == get_alphabet_re(AMB_NT_UC \cup AMB_NT_LC, FALSE)

is_dna(seq) == fullmatch(dna_re, seq)

\* is_masked looking for lower-case bases only
is_masked_bases_only(seq) == search(get_alphabet_re(NT_LC, FALSE), seq)

is_masked(seq) == search(dna_masked_re, seq)

is_ambiguous(seq) == search(dna_ambiguous_re, seq)

(***************************************************************************)
(* readers/read_info.py                                                    *)
(***************************************************************************)
ReadInfoFields ==
    {"sequence", "is_masked", "is_ambiguous", "is_qc_fail", "is_short",
     "is_empty", "is_flagged"}

\* the generated __init__ of the dataclass: no field has a default, so a
\* call that leaves a field out raises TypeError
ReadInfo(kwargs) ==
    IF DOMAIN kwargs = ReadInfoFields THEN Return(kwargs) ELSE Raise("TypeError")

\* to_discard with the masked test left out
to_discard_unmasked(self, discard_qc) ==
    \/ self.is_ambiguous
    \/ self.is_short
    \/ self.is_empty
    \/ self.is_flagged
    \/ (discard_qc /\ self.is_qc_fail)

\* to_discard with the QC failure discarded whatever the policy
to_discard_any_qc(self, discard_qc) ==
    \/ self.is_masked
    \/ self.is_ambiguous
    \/ self.is_short
    \/ self.is_empty
    \/ self.is_flagged
    \/ self.is_qc_fail

to_discard(self, discard_qc) ==
    \/ self.is_masked
    \/ self.is_ambiguous
    \/ self.is_short
    \/ self.is_empty
    \/ self.is_flagged
    \/ (discard_qc /\ self.is_qc_fail)

is_sequence_invalid(self) == self.is_ambiguous \/ self.is_masked

(***************************************************************************)
(* stats.py                                                                *)
(***************************************************************************)
StatsFields ==
    <<"sample_name", "input_reads", "total_reads", "vendor_failed_reads",
      "length_excluded_reads", "ambiguous_nt_reads", "masked_reads",
      "total_invalid_reads", "total_excluded_reads", "total_zero_reads">>

\* the generated __init__ of the dataclass, called with positional arguments
LibraryIndependentStats(args) ==
    IF Len(args) = Len(StatsFields)
    THEN Return([f \in Range(StatsFields) |->
                    args[CHOOSE i \in DOMAIN StatsFields : StatsFields[i] = f]])
    ELSE Raise("TypeError")

\* LibraryIndependentStats.empty: the sample name and eight zeros, one short
\* of the nine counters of the dataclass, so the call raises TypeError
empty(sample_name) ==
    LibraryIndependentStats(<<sample_name, 0, 0, 0, 0, 0, 0, 0, 0>>)

Bump(self, field, cond) ==
    IF cond THEN [self EXCEPT ![field] = @ + 1] ELSE self

\* eval_read_info without the else branch: a discarded read is not counted
eval_read_info_no_else(self, discard_qc, read_info) ==
    LET s1 == Bump(self, "vendor_failed_reads", read_info.is_qc_fail)
        s2 == Bump(s1, "ambiguous_nt_reads", read_info.is_ambiguous)
        s3 == Bump(s2, "masked_reads", read_info.is_masked)
        s4 == Bump(s3, "total_invalid_reads", read_info.is_ambiguous \/ read_info.is_masked)
        s5 == Bump(s4, "length_excluded_reads", read_info.is_short)
        s6 == Bump(s5, "total_zero_reads", read_info.is_empty)
        s7 == Bump(s6, "input_reads", TRUE)
        keep == ~(\/ read_info.is_masked \/ read_info.is_ambiguous \/ read_info.is_short
                  \/ read_info.is_empty \/ read_info.is_flagged
                  \/ (discard_qc /\ read_info.is_qc_fail))
        s8 == Bump(s7, "total_reads", keep)
    IN  [self |-> s8, keep |-> keep]

\* eval_read_info counting an invalid read once per reason
eval_read_info_invalid_twice(self, discard_qc, read_info) ==
    LET s1 == Bump(self, "vendor_failed_reads", read_info.is_qc_fail)
        s2 == Bump(s1, "ambiguous_nt_reads", read_info.is_ambiguous)
        s3 == Bump(s2, "masked_reads", read_info.is_masked)
        s4 == Bump(Bump(s3, "total_invalid_reads", read_info.is_ambiguous),
                   "total_invalid_reads", read_info.is_masked)
        s5 == Bump(s4, "length_excluded_reads", read_info.is_short)
        s6 == Bump(s5, "total_zero_reads", read_info.is_empty)
        s7 == Bump(s6, "input_reads", TRUE)
        keep == ~(\/ read_info.is_masked \/ read_info.is_ambiguous \/ read_info.is_short
                  \/ read_info.is_empty \/ read_info.is_flagged
                  \/ (discard_qc /\ read_info.is_qc_fail))
        s8 == IF keep THEN Bump(s7, "total_reads", TRUE)
                      ELSE Bump(s7, "total_excluded_reads", TRUE)
    IN  [self |-> s8, keep |-> keep]

\* LibraryIndependentStats.eval_read_info: the updated object and the result
eval_read_info(self, discard_qc, read_info) ==
    LET s1 == Bump(self, "vendor_failed_reads", read_info.is_qc_fail)
        s2 == Bump(s1, "ambiguous_nt_reads", read_info.is_ambiguous)
        s3 == Bump(s2, "masked_reads", read_info.is_masked)
        s4 == Bump(s3, "total_invalid_reads", is_sequence_invalid(read_info))
        s5 == Bump(s4, "length_excluded_reads", read_info.is_short)
        s6 == Bump(s5, "total_zero_reads", read_info.is_empty)
        s7 == Bump(s6, "input_reads", TRUE)
        keep == ~to_discard(read_info, discard_qc)
        s8 == IF keep THEN Bump(s7, "total_reads", TRUE)
                      ELSE Bump(s7, "total_excluded_reads", TRUE)
    IN  [self |-> s8, keep |-> keep]

(***************************************************************************)
(* collections.Counter                                                     *)
(***************************************************************************)
EmptyCounter == <<>>

\* Counter.__getitem__ / dict.get(key, 0)
Get(counter, key) == IF key \in DOMAIN counter THEN counter[key] ELSE 0

\* counter[key] = 1 in place of counter[key] += 1
Incr_assign(counter, key) ==
    [k \in DOMAIN counter \cup {key} |-> IF k = key THEN 1 ELSE counter[k]]

\* counter[key] += 1
Incr(counter, key) ==
    [k \in DOMAIN counter \cup {key} |-> Get(counter, k) + (IF k = key THEN 1 ELSE 0)]

(***************************************************************************)
(* readers/fq.py                                                           *)
(***************************************************************************)
get_fastq_read_info(min_len, seq, qc_fail) ==
    IF ~is_dna(seq)
    THEN Raise("InputReadError")
    ELSE ReadInfo([sequence |-> seq,
                   is_flagged |-> FALSE,
                   is_qc_fail |-> qc_fail,
                   is_ambiguous |-> is_ambiguous(seq),
                   is_masked |-> is_masked(seq),
                   is_short |-> (Len(seq) < min_len)])

(***************************************************************************)
(* readers/hts.py                                                          *)
(***************************************************************************)
FSECONDARY == "FSECONDARY"
FSUPPLEMENTARY == "FSUPPLEMENTARY"
FQCFAIL == "FQCFAIL"

\* a flag word is the set of its bits: | is union, & is intersection
SKIP_READ_FLAG == {FSECONDARY, FSUPPLEMENTARY}

\* pysam.AlignedSegment.is_qcfail
is_qcfail(read) == FQCFAIL \in read.flag

\* get_hts_read_info without the alphabet check
get_hts_read_info_unchecked(min_len, skip_read_flag, read) ==
    IF Len(read.seq) = 0
    THEN Raise("InputReadError")
    ELSE ReadInfo([sequence |-> read.seq,
                   is_flagged |-> (read.flag \cap skip_read_flag # {}),
                   is_qc_fail |-> is_qcfail(read),
                   is_ambiguous |-> is_ambiguous(read.seq),
                   is_masked |-> (/\ read.cigarstring.present
                                  /\ "S" \in Range(read.cigarstring.ops)),
                   is_short |-> (Len(read.seq) < min_len),
                   is_empty |-> FALSE])

\* get_hts_read_info with the masking flag taken from the letter case
get_hts_read_info_lowercase(min_len, skip_read_flag, read) ==
    LET seq == read.seq
    IN  IF Len(seq) = 0
        THEN Raise("InputReadError")
        ELSE IF ~is_dna(seq)
        THEN Raise("InputReadError")
        ELSE ReadInfo([sequence |-> seq,
                       is_flagged |-> (read.flag \cap skip_read_flag # {}),
                       is_qc_fail |-> is_qcfail(read),
                       is_ambiguous |-> is_ambiguous(seq),
                       is_masked |-> is_masked(seq),
                       is_short |-> (Len(seq) < min_len),
                       is_empty |-> FALSE])

get_hts_read_info(min_len, skip_read_flag, read) ==
    LET seq == read.seq
    IN  IF Len(seq) = 0
        THEN Raise("InputReadError")
        ELSE IF ~is_dna(seq)
        THEN Raise("InputReadError")
        ELSE ReadInfo([sequence |-> seq,
                       is_flagged |-> (read.flag \cap skip_read_flag # {}),
                       is_qc_fail |-> is_qcfail(read),
                       is_ambiguous |-> is_ambiguous(seq),
                       is_masked |-> (/\ read.cigarstring.present
                                      /\ "S" \in Range(read.cigarstring.ops)),
                       is_short |-> (Len(seq) < min_len),
                       is_empty |-> FALSE])

\* the skip mask with the QC-failure bit set under either policy
skip_read_flag_of_always_qcfail(policy) == SKIP_READ_FLAG \cup {FQCFAIL}

\* the skip mask parse_htsfile builds from the QC policy
skip_read_flag_of(policy) ==
    IF ~policy THEN SKIP_READ_FLAG ELSE SKIP_READ_FLAG \cup {FQCFAIL}

(***************************************************************************)
(* str and text-file primitives used by TargetLibrary.load                 *)
(***************************************************************************)
Whitespace == {" ", "\t", "\n"}

RECURSIVE lstrip(_)
lstrip(s) == IF Len(s) > 0 /\ Head(s) \in Whitespace THEN lstrip(Tail(s)) ELSE s

RECURSIVE rstrip(_)
rstrip(s) ==
    IF Len(s) > 0 /\ s[Len(s)] \in Whitespace THEN rstrip(SubSeq(s, 1, Len(s) - 1)) ELSE s

\* str.strip()
strip(s) == rstrip(lstrip(s))

\* str.split(sep, maxsplit)
RECURSIVE split(_, _, _)
split(s, sep, maxsplit) ==
    IF maxsplit = 0 \/ ~\E i \in DOMAIN s : s[i] = sep
    THEN <<s>>
    ELSE LET i == CHOOSE i \in DOMAIN s : s[i] = sep /\ \A j \in 1..(i - 1) : s[j] # sep
         IN  <<SubSeq(s, 1, i - 1)>> \o split(SubSeq(s, i + 1, Len(s)), sep, maxsplit - 1)

\* fh.readline() when pos - 1 lines have been read: the line with its
\* terminator, the empty string at the end of the file
readline(fh, pos) == IF pos <= Len(fh) THEN Append(fh[pos], "\n") ELSE <<>>

(***************************************************************************)
(* library.py                                                              *)
(***************************************************************************)
LIB_FIELD_ID == 0
LIB_FIELD_NAME == 1
LIB_FIELD_SEQ == 2

Target(id, name, seq) == [id |-> id, name |-> name, seq |-> seq]

TargetLibrary(min_len, total_target_count, short_target_count, target_counts, targets) ==
    [min_length |-> min_len,
     total_target_count |-> total_target_count,
     short_target_count |-> short_target_count,
     target_counts |-> target_counts,
     targets |-> targets]

unique_target_count(self) == Cardinality(DOMAIN self.target_counts)

\* the "skip header" loop of load; pos is the next line to read
RECURSIVE SkipHeader(_, _, _)
SkipHeader(fh, pos, lib_line) ==
    IF Len(lib_line) = 0
    THEN Raise("IndexError")
    ELSE IF lib_line[1] = "#"
    THEN LET next_line == strip(readline(fh, pos))
         IN  IF Len(next_line) = 0
             THEN Raise("RuntimeError")
             ELSE SkipHeader(fh, pos + 1, next_line)
    ELSE Return([pos |-> pos, lib_line |-> lib_line])

\* the record loop of load
RECURSIVE ReadTargets(_, _, _, _, _)
ReadTargets(fh, pos, lib_line, min_len, acc) ==
    IF Len(lib_line) = 0
    THEN Return(TargetLibrary(min_len, acc.total_target_count,
                              Cardinality(acc.short_sequences),
                              acc.target_counts, acc.targets))
    ELSE LET t == split(strip(lib_line), "\t", 3)
         IN  IF Len(t) <= LIB_FIELD_SEQ
             THEN Raise("IndexError")
             ELSE LET target == Target(t[LIB_FIELD_ID + 1], t[LIB_FIELD_NAME + 1],
                                       t[LIB_FIELD_SEQ + 1])
                  IN  ReadTargets(fh, pos + 1, strip(readline(fh, pos)), min_len,
                          [total_target_count |-> acc.total_target_count + 1,
                           target_counts |-> Incr(acc.target_counts, target.seq),
                           short_sequences |->
                               IF Len(target.seq) < min_len
                               THEN acc.short_sequences \cup {target.seq}
                               ELSE acc.short_sequences,
                           targets |-> Append(acc.targets, target)])

\* TargetLibrary.load
load(fp, min_len) ==
    IF min_len < 0
    THEN Raise("InvalidLibraryError")
    ELSE LET header == SkipHeader(fp, 2, strip(readline(fp, 1)))
         IN  IF header.raised # "none"
             THEN header
             ELSE ReadTargets(fp, header.value.pos, header.value.lib_line, min_len,
                      [total_target_count |-> 0,
                       target_counts |-> EmptyCounter,
                       short_sequences |-> {},
                       targets |-> <<>>])

(***************************************************************************)
(* utils.py; a float is kept as the exact fraction [num, den]              *)
(***************************************************************************)
Frac(num, den) == [num |-> num, den |-> den]

RECURSIVE SumSeq(_)
SumSeq(a) == IF Len(a) = 0 THEN 0 ELSE Head(a) + SumSeq(Tail(a))

\* the weighted sum with ranks counted from 0
RECURSIVE RankedSum_zero_based(_)
RankedSum_zero_based(a) ==
    IF Len(a) = 0 THEN 0
    ELSE a[Len(a)] * (Len(a) - 1) + RankedSum_zero_based(SubSeq(a, 1, Len(a) - 1))

\* np.sum(sa * np.arange(1, n + 1))
RECURSIVE RankedSum(_)
RankedSum(a) == IF Len(a) = 0 THEN 0 ELSE a[Len(a)] * Len(a) + RankedSum(SubSeq(a, 1, Len(a) - 1))

\* the median with the upper central element taken for an even length
get_median_from_sorted_upper(sa) ==
    LET n == Len(sa)
    IN  IF n = 0 THEN Raise("UnsupportedData")
        ELSE IF n = 1 THEN Return(Frac(sa[1], 1))
        ELSE IF n % 2 = 0
        THEN LET i == n \div 2
             IN  Return(Frac(sa[i + 1], 1))
        ELSE Return(Frac(sa[((n - 1) \div 2) + 1], 1))

get_median_from_sorted(sa) ==
    LET n == Len(sa)
    IN  IF n = 0 THEN Raise("UnsupportedData")
        ELSE IF n = 1 THEN Return(Frac(sa[1], 1))
        ELSE IF n % 2 = 0
        THEN LET i == n \div 2
             IN  Return(Frac(sa[(i - 1) + 1] + sa[i + 1], 2))
        ELSE Return(Frac(sa[((n - 1) \div 2) + 1], 1))

\* get_stats with the test on the sum made before the test on the length
get_stats_sum_first(sa, gini_corr) ==
    LET n == Len(sa)
        m == SumSeq(sa)
    IN  IF m = 0 THEN Return(<<0, Frac(0, 1), Frac(0, 1), Frac(0, 1)>>)
        ELSE IF n = 0 THEN Raise("UnsupportedData")
        ELSE LET mean == Frac(m, n)
                 median == get_median_from_sorted(sa)
                 gini_coeff == Frac(2 * RankedSum(sa) - (n + 1) * m,
                                    m * (IF gini_corr THEN n - 1 ELSE n))
             IN  IF median.raised # "none" THEN median
                 ELSE Return(<<m, mean, median.value, gini_coeff>>)

\* get_stats: (total, mean, median, Gini coefficient)
\* the division by n - 1 is a numpy float division: with n = 1 it yields nan
\* (0 / 0), kept here as the fraction with denominator 0
get_stats(sa, gini_corr) ==
    LET n == Len(sa)
        m == SumSeq(sa)
    IN  IF n = 0 THEN Raise("UnsupportedData")
        ELSE IF m = 0 THEN Return(<<0, Frac(0, 1), Frac(0, 1), Frac(0, 1)>>)
        ELSE LET mean == Frac(m, n)
                 median == get_median_from_sorted(sa)
                 \* (2 * S / m - (n + 1)) / d  =  (2 * S - (n + 1) * m) / (m * d)
                 gini_coeff == Frac(2 * RankedSum(sa) - (n + 1) * m,
                                    m * (IF gini_corr THEN n - 1 ELSE n))
             IN  IF median.raised # "none" THEN median
                 ELSE Return(<<m, mean, median.value, gini_coeff>>)

(***************************************************************************)
(* library.py: map_and_write                                               *)
(***************************************************************************)
None == <<>>
Some(v) == <<v>>

\* keys of target_counts in dict order: first occurrence among the targets
RECURSIVE KeysInOrder(_, _)
KeysInOrder(targets, seen) ==
    IF Len(targets) = 0 THEN <<>>
    ELSE IF Head(targets).seq \in seen THEN KeysInOrder(Tail(targets), seen)
    ELSE <<Head(targets).seq>> \o KeysInOrder(Tail(targets), seen \cup {Head(targets).seq})

\* np.count_nonzero(a == v)
CountEqual(a, v) == Cardinality({i \in DOMAIN a : a[i] = v})

\* np.count_nonzero(a < t)
CountBelow(a, t) == Cardinality({i \in DOMAIN a : a[i] < t})

\* the line with the uniqueness flag also asking for reads of the sequence
Row_unique_if_counted(self, sample_name, queries, target) ==
    [id |-> target.id,
     name |-> target.name,
     seq |-> target.seq,
     length |-> Len(target.seq),
     count |-> Get(queries, target.seq),
     is_unique |-> IF self.target_counts[target.seq] = 1 /\ Get(queries, target.seq) > 0
                   THEN 1 ELSE 0,
     sample |-> sample_name]

\* one line of the library-dependent count file, as its seven fields
Row(self, sample_name, queries, target) ==
    [id |-> target.id,
     name |-> target.name,
     seq |-> target.seq,
     length |-> Len(target.seq),
     count |-> Get(queries, target.seq),
     is_unique |-> IF self.target_counts[target.seq] = 1 THEN 1 ELSE 0,
     sample |-> sample_name]

\* the loop over the targets leaving out those below the minimum length
WriteRows_skip_short(self, sample_name, queries) ==
    LET long == SelectSeq(self.targets, LAMBDA t : Len(t.seq) >= self.min_length)
    IN  [i \in DOMAIN long |-> Row(self, sample_name, queries, long[i])]

\* the loop over self.targets: one line per target, in list order
WriteRows(self, sample_name, queries) ==
    [i \in DOMAIN self.targets |-> Row(self, sample_name, queries, self.targets[i])]

\* the low_counts Counter after lines 163-168
LowCounts(template_counts, custom_count_threshold) ==
    LET count_thresholds == <<15, 30>> \o custom_count_threshold
        zero == CountEqual(template_counts, 0)
    IN  [t \in {0} \cup Range(count_thresholds) |->
            IF t \in Range(count_thresholds)
            THEN CountBelow(template_counts, t)
            ELSE zero]

\* the multimap_reads accumulation of the loop over target_counts, with the
\* test on the synonym group size left out
multimap_reads_every_group(self, queries, qualifying) ==
    SumSeq([i \in DOMAIN qualifying |-> Get(queries, qualifying[i])])

\* the multimap_reads accumulation of the loop over target_counts: the count
\* of a qualifying sequence is added when more than one target carries it
multimap_reads(self, queries, qualifying) ==
    SumSeq([i \in DOMAIN qualifying |->
               IF self.target_counts[qualifying[i]] > 1
               THEN Get(queries, qualifying[i]) ELSE 0])

\* the difference taken from the reads seen instead of the reads kept
unmapped_reads_of_input(lib_stats, mapped_to_template_reads) ==
    lib_stats.input_reads - mapped_to_template_reads

\* unmapped_reads, line 175
unmapped_reads(lib_stats, mapped_to_template_reads) ==
    lib_stats.total_reads - mapped_to_template_reads

\* the number of targets passing the length filter, with the short unique
\* sequences not taken off
long_target_count_with_short(self) == unique_target_count(self)

\* long_target_count, line 143
long_target_count(self) == unique_target_count(self) - self.short_target_count

\* TargetLibrary.map_and_write: the rows written and the returned statistics
map_and_write(self, lib_stats, queries, custom_count_threshold) ==
    LET written == WriteRows(self, lib_stats.sample_name, queries)
        long == long_target_count(self)
        keys == KeysInOrder(self.targets, {})
        qualifying == SelectSeq(keys, LAMBDA seq : Len(seq) >= self.min_length)
        template_counts ==
            SortSeq([i \in 1..long |->
                        IF i <= Len(qualifying) THEN Get(queries, qualifying[i]) ELSE 0],
                    LAMBDA a, b : a < b)
        multimap ==
            IF long > 0
            THEN multimap_reads(self, queries, qualifying)
            ELSE 0
        low_counts ==
            IF long > 0
            THEN LowCounts(template_counts, custom_count_threshold)
            ELSE EmptyCounter
        computed ==
            IF long > 0
            THEN get_stats(template_counts, FALSE)
            ELSE Return(<<0, Frac(0, 1), Frac(0, 1), Frac(0, 1)>>)
    IN  IF long > 0 /\ Len(qualifying) > long
        THEN [rows |-> written, ret |-> Raise("IndexError")]
        ELSE IF computed.raised # "none"
        THEN [rows |-> written, ret |-> computed]
        ELSE [rows |-> written,
              ret |-> Return(
                [sample_name |-> lib_stats.sample_name,
                 input_reads |-> lib_stats.input_reads,
                 total_reads |-> lib_stats.total_reads,
                 vendor_failed_reads |-> lib_stats.vendor_failed_reads,
                 length_excluded_reads |-> lib_stats.length_excluded_reads,
                 ambiguous_nt_reads |-> lib_stats.ambiguous_nt_reads,
                 masked_reads |-> lib_stats.masked_reads,
                 total_invalid_reads |-> lib_stats.total_invalid_reads,
                 total_excluded_reads |-> lib_stats.total_excluded_reads,
                 total_zero_reads |-> lib_stats.total_zero_reads,
                 mapped_to_template_reads |-> computed.value[1],
                 multimap_reads |-> multimap,
                 unmapped_reads |-> unmapped_reads(lib_stats, computed.value[1]),
                 total_templates |-> self.total_target_count,
                 total_unique_templates |-> unique_target_count(self),
                 length_excluded_templates |-> self.short_target_count,
                 mean_count_per_template |-> computed.value[2],
                 median_count_per_template |-> computed.value[3],
                 gini_coefficient |-> computed.value[4],
                 zero_count_templates |-> Get(low_counts, 0),
                 low_count_templates_lt_15 |-> Get(low_counts, 15),
                 low_count_templates_lt_30 |-> Get(low_counts, 30),
                 low_count_templates_user |->
                     IF custom_count_threshold # None
                     THEN <<custom_count_threshold[1],
                            Get(low_counts, custom_count_threshold[1])>>
                     ELSE None])]

(***************************************************************************)
(* Inputs                                                                  *)
(***************************************************************************)
Sample == "X"

\* CIGAR strings: none, one without and one with a soft clip
Cigars ==
    {[present |-> FALSE, ops |-> <<>>],
     [present |-> TRUE, ops |-> <<"M">>],
     [present |-> TRUE, ops |-> <<"S", "M">>]}

\* sequences of the records of a read file: missing, kept at two lengths,
\* lower-case, ambiguous, not DNA
ReadSeqs ==
    {<<>>, <<"A">>, <<"A", "C">>, <<"a", "C">>, <<"A", "N">>, <<"A", "X">>}

\* alignment records; seq is the forward sequence, <<>> when it is missing
HtsReads == [seq : ReadSeqs, flag : SUBSET {FSECONDARY, FSUPPLEMENTARY, FQCFAIL},
             cigarstring : Cigars]

FastqReads == [seq : ReadSeqs, qc_fail : BOOLEAN]

ReadInfos == [sequence : {<<"A", "C">>}, is_masked : BOOLEAN, is_ambiguous : BOOLEAN,
              is_qc_fail : BOOLEAN, is_short : BOOLEAN, is_empty : BOOLEAN,
              is_flagged : BOOLEAN]

NoCall == [op |-> "none", arg |-> NoValue, ret |-> NoValue]

(***************************************************************************)
(* The Sequence Counter                                                    *)
(***************************************************************************)
\* no library has been loaded and nothing has been written
NoLibrary ==
    /\ lib = NoValue
    /\ rows = <<>>
    /\ dep_stats = NoValue
    /\ report = NoValue

\* the accumulator with every counter at zero and an empty Counter.  The
\* parsers obtain it from LibraryIndependentStats.empty, which raises (see
\* empty); the closures are explored from the object the dataclass
\* constructor returns when it is given all nine zeros.
InitCounter ==
    /\ stats = LibraryIndependentStats(<<Sample, 0, 0, 0, 0, 0, 0, 0, 0, 0>>).value
    /\ reads = EmptyCounter
    /\ error = "none"
    /\ call = NoCall

\* the closure body with the sequence counted whether or not the read is kept
EvalRead_count_discarded(op, arg, r) ==
    /\ call' = [op |-> op, arg |-> arg, ret |-> r]
    /\ IF r.raised # "none"
       THEN /\ error' = r.raised
            /\ UNCHANGED <<stats, reads>>
       ELSE LET e == eval_read_info(stats, exclude_qcfail, r.value)
            IN  /\ stats' = e.self
                /\ reads' = Incr(reads, r.value.sequence)
                /\ error' = "none"
    /\ UNCHANGED <<exclude_qcfail, min_length, fmt, lib, rows, dep_stats, report>>

\* the closure body with a look-up that enters the sequence of a discarded
\* read in the count map with a count of 0
EvalRead_insert_zero(op, arg, r) ==
    /\ call' = [op |-> op, arg |-> arg, ret |-> r]
    /\ IF r.raised # "none"
       THEN /\ error' = r.raised
            /\ UNCHANGED <<stats, reads>>
       ELSE LET e == eval_read_info(stats, exclude_qcfail, r.value)
                seq == r.value.sequence
            IN  /\ stats' = e.self
                /\ reads' = IF e.keep THEN Incr(reads, seq)
                            ELSE [k \in DOMAIN reads \cup {seq} |-> Get(reads, k)]
                /\ error' = "none"
    /\ UNCHANGED <<exclude_qcfail, min_length, fmt, lib, rows, dep_stats, report>>

\* the body shared by the two eval_read closures, given the classifier's result
EvalRead(op, arg, r) ==
    /\ call' = [op |-> op, arg |-> arg, ret |-> r]
    /\ IF r.raised # "none"
       THEN /\ error' = r.raised
            /\ UNCHANGED <<stats, reads>>
       ELSE LET e == eval_read_info(stats, exclude_qcfail, r.value)
            IN  /\ stats' = e.self
                /\ reads' = IF e.keep THEN Incr(reads, r.value.sequence) ELSE reads
                /\ error' = "none"
    /\ UNCHANGED <<exclude_qcfail, min_length, fmt, lib, rows, dep_stats, report>>

\* parse_fastq.eval_read on the next record of the file
FqEvalRead(read) ==
    /\ fmt = "FASTQ"
    /\ error = "none"
    /\ stats.input_reads < MaxReads
    /\ EvalRead("fq.eval_read", read,
                get_fastq_read_info(min_length, read.seq, read.qc_fail))

\* parse_htsfile.eval_read on the next record of the file
HtsEvalRead(read) ==
    /\ fmt = "HTS"
    /\ error = "none"
    /\ stats.input_reads < MaxReads
    /\ EvalRead("hts.eval_read", read,
                get_hts_read_info(min_length, skip_read_flag_of(exclude_qcfail), read))

Init ==
    /\ InitCounter
    /\ NoLibrary
    /\ exclude_qcfail \in BOOLEAN
    /\ min_length \in 0..MaxSeqLen
    /\ fmt \in {"FASTQ", "HTS"}

Next ==
    \/ \E read \in FastqReads : FqEvalRead(read)
    \/ \E read \in HtsReads : HtsEvalRead(read)

Spec == Init /\ [][Next]_vars

(***************************************************************************)
(* eval_read_info called directly on a ReadInfo, under either policy       *)
(***************************************************************************)
EvalReadInfo(discard_qc, read_info) ==
    /\ stats.input_reads < MaxReads
    /\ LET e == eval_read_info(stats, discard_qc, read_info)
       IN  /\ stats' = e.self
           /\ call' = [op |-> "eval_read_info",
                       arg |-> [discard_qc |-> discard_qc, read_info |-> read_info],
                       ret |-> Return(e.keep)]
    /\ UNCHANGED <<reads, exclude_qcfail, min_length, fmt, error, lib, rows, dep_stats, report>>

InitEval ==
    /\ InitCounter
    /\ NoLibrary
    /\ exclude_qcfail = FALSE
    /\ min_length = 0
    /\ fmt = "none"

NextEval == \E discard_qc \in BOOLEAN, read_info \in ReadInfos : EvalReadInfo(discard_qc, read_info)

SpecEval == InitEval /\ [][NextEval]_vars

(***************************************************************************)
(* Properties of the accumulator                                           *)
(***************************************************************************)
IsEval == call.op = "eval_read_info"
IsEvalRead == call.op \in {"fq.eval_read", "hts.eval_read"}

Flag(b) == IF b THEN 1 ELSE 0

\* C1: after any prefix of calls, under any mix of flags and either policy,
\* input_reads = total_reads + total_excluded_reads
C1_InputReadsSplit ==
    stats.input_reads = stats.total_reads + stats.total_excluded_reads

C1_Witness ==
    /\ IsEval
    /\ stats.total_reads >= 1
    /\ stats.total_excluded_reads >= 1

\* C2: one read adds exactly 1 to input_reads, exactly 1 to one of total_reads
\* and total_excluded_reads, and 1 to each flag counter whose flag is set
\* (total_invalid_reads: ambiguous or masked); nothing else changes
C2_IncrementsOnly ==
    [][call'.op = "eval_read_info" =>
        LET ri == call'.arg.read_info
        IN  /\ stats'.input_reads = stats.input_reads + 1
            /\ \/ /\ stats'.total_reads = stats.total_reads + 1
                  /\ stats'.total_excluded_reads = stats.total_excluded_reads
               \/ /\ stats'.total_reads = stats.total_reads
                  /\ stats'.total_excluded_reads = stats.total_excluded_reads + 1
            /\ stats'.vendor_failed_reads = stats.vendor_failed_reads + Flag(ri.is_qc_fail)
            /\ stats'.ambiguous_nt_reads = stats.ambiguous_nt_reads + Flag(ri.is_ambiguous)
            /\ stats'.masked_reads = stats.masked_reads + Flag(ri.is_masked)
            /\ stats'.total_invalid_reads =
                   stats.total_invalid_reads + Flag(ri.is_ambiguous \/ ri.is_masked)
            /\ stats'.length_excluded_reads = stats.length_excluded_reads + Flag(ri.is_short)
            /\ stats'.total_zero_reads = stats.total_zero_reads + Flag(ri.is_empty)
            /\ stats'.sample_name = stats.sample_name
            /\ DOMAIN stats' = DOMAIN stats
    ]_vars

C2_Witness ==
    /\ IsEval
    /\ call.arg.read_info.is_ambiguous
    /\ call.arg.read_info.is_masked
    /\ call.arg.read_info.is_empty
    /\ stats.input_reads = 2
    /\ stats.total_invalid_reads = 1
    /\ stats.total_zero_reads = 1

\* C3: to_discard is the disjunction of masked, ambiguous, short, empty,
\* flagged and (policy and QC failure), and eval_read_info returns its negation
C3_DiscardPredicate ==
    IsEval =>
        LET ri == call.arg.read_info
            dq == call.arg.discard_qc
            discard == \/ ri.is_masked \/ ri.is_ambiguous \/ ri.is_short
                       \/ ri.is_empty \/ ri.is_flagged \/ (dq /\ ri.is_qc_fail)
        IN  /\ to_discard(ri, dq) = discard
            /\ call.ret.value = ~discard

C3_Witness ==
    /\ IsEval
    /\ call.arg.read_info.is_qc_fail
    /\ ~call.arg.discard_qc
    /\ call.ret.value = TRUE
    /\ stats.total_excluded_reads = 1

\* C4: after any prefix of calls total_invalid_reads <= total_excluded_reads
C4_InvalidAreExcluded ==
    stats.total_invalid_reads <= stats.total_excluded_reads

C4_Witness ==
    /\ IsEval
    /\ stats.total_invalid_reads = 1
    /\ stats.total_excluded_reads = 2

(***************************************************************************)
(* Properties of the Sequence Counter                                      *)
(***************************************************************************)
DnaAlphabet == NT_UC \cup NT_LC \cup AMB_NT_UC \cup AMB_NT_LC

\* C5: a record whose sequence has a character outside the DNA alphabet ends
\* the run with InputReadError and leaves the counters and the count map as
\* they were before the record
C5_InvalidReadLeavesState ==
    [][(/\ call'.op \in {"fq.eval_read", "hts.eval_read"}
        /\ \E i \in DOMAIN call'.arg.seq : call'.arg.seq[i] \notin DnaAlphabet)
       => /\ error' = "InputReadError"
          /\ stats' = stats
          /\ reads' = reads
    ]_vars

C5_Witness ==
    /\ IsEvalRead
    /\ call.arg.seq = <<"A", "X">>
    /\ error = "InputReadError"
    /\ stats.total_reads = 1
    /\ Get(reads, <<"A", "C">>) = 1

(***************************************************************************)
(* The read_qc predicates applied to one sequence                          *)
(***************************************************************************)
ReadQc ==
    /\ call.op = "input"
    /\ call' = [op |-> "read_qc", arg |-> call.arg,
                ret |-> Return([is_dna |-> is_dna(call.arg),
                                is_masked |-> is_masked(call.arg),
                                is_ambiguous |-> is_ambiguous(call.arg)])]
    /\ UNCHANGED <<stats, reads, exclude_qcfail, min_length, fmt, error, lib, rows, dep_stats, report>>

InitQc ==
    /\ stats = LibraryIndependentStats(<<Sample, 0, 0, 0, 0, 0, 0, 0, 0, 0>>).value
    /\ reads = EmptyCounter
    /\ error = "none"
    /\ exclude_qcfail = FALSE
    /\ min_length = 0
    /\ fmt = "none"
    /\ NoLibrary
    /\ \E seq \in RawSequences : call = [op |-> "input", arg |-> seq, ret |-> NoValue]

NextQc == ReadQc

SpecQc == InitQc /\ [][NextQc]_vars

\* C6: on a sequence over the DNA and ambiguity alphabet is_masked holds iff
\* some character is lower-case and is_ambiguous holds iff some character is
\* an ambiguity code of either case; neither flag depends on the other
C6_MaskedAndAmbiguous ==
    (/\ call.op = "read_qc"
     /\ \A i \in DOMAIN call.arg :
            call.arg[i] \in {"A", "C", "G", "T", "N", "R", "Y", "K", "M", "S", "W",
                             "a", "c", "g", "t", "n", "r", "y", "k", "m", "s", "w"})
    => /\ call.ret.value.is_masked =
              (\E i \in DOMAIN call.arg :
                   call.arg[i] \in {"a", "c", "g", "t", "n", "r", "y", "k", "m", "s", "w"})
       /\ call.ret.value.is_ambiguous =
              (\E i \in DOMAIN call.arg :
                   call.arg[i] \in {"N", "R", "Y", "K", "M", "S", "W",
                                    "n", "r", "y", "k", "m", "s", "w"})

\* a sequence that is masked only by its ambiguity code
C6_Witness ==
    /\ call.op = "read_qc"
    /\ call.arg = <<"A", "n">>
    /\ call.ret.value.is_masked
    /\ call.ret.value.is_ambiguous

\* C7: a zero-length sequence is classified without raising, as an empty read
\* that is discarded under either policy and counted in total_zero_reads
C7_EmptyReadIsCounted ==
    (IsEvalRead /\ Len(call.arg.seq) = 0)
    => /\ call.ret.raised = "none"
       /\ call.ret.value.is_empty
       /\ error = "none"
       /\ stats.total_zero_reads >= 1
       /\ stats.total_excluded_reads >= 1

(***************************************************************************)
(* Loading a library and mapping a count map onto it                       *)
(***************************************************************************)
\* lines of a library file, without their terminator: a comment, records for
\* A, AA (twice, as synonyms) and C (with trailing fields), a blank line and
\* a record with two fields
LibLines ==
    {<<"#", "h">>,
     <<"1", "\t", "p", "\t", "A">>,
     <<"2", "\t", "q", "\t", "A", "A">>,
     <<"3", "\t", "r", "\t", "A", "A">>,
     <<"4", "\t", "s", "\t", "C", "\t", "x", "\t", "y">>,
     <<>>,
     <<"5", "\t", "t">>}

LibSources == SeqsUpTo(LibLines, MaxLines)

LibMinLengths == {-1, 0, 2, 3}

\* count maps handed to map_and_write, with the statistics of a run that kept
\* those reads and excluded one masked read
QueryCounters ==
    {EmptyCounter,
     (<<"A">> :> 5),
     (<<"A">> :> 1) @@ (<<"A", "A">> :> 2),
     (<<"A", "A">> :> 20) @@ (<<"C">> :> 40) @@ (<<"G">> :> 50)}

CustomThresholds == {None, Some(0), Some(15), Some(20)}

RECURSIVE SumValues(_)
SumValues(counter) ==
    IF DOMAIN counter = {} THEN 0
    ELSE LET k == CHOOSE k \in DOMAIN counter : TRUE
         IN  counter[k] + SumValues([j \in DOMAIN counter \ {k} |-> counter[j]])

StatsOf(queries) ==
    [LibraryIndependentStats(<<Sample, 0, 0, 0, 0, 0, 0, 0, 0, 0>>).value
        EXCEPT !.input_reads = SumValues(queries) + 1,
               !.total_reads = SumValues(queries),
               !.masked_reads = 1,
               !.total_invalid_reads = 1,
               !.total_excluded_reads = 1]

\* main, lines 196-199: the library is loaded once
Load(fp) ==
    /\ lib = NoValue
    /\ error = "none"
    /\ LET r == load(fp, min_length)
       IN  /\ call' = [op |-> "load", arg |-> [fp |-> fp, min_length |-> min_length],
                       ret |-> r]
           /\ error' = r.raised
           /\ lib' = r.value
    /\ UNCHANGED <<stats, reads, exclude_qcfail, min_length, fmt, rows, dep_stats, report>>

\* the mapping step with look-ups that enter each missing target sequence in
\* the count map with a count of 0
MapAndWrite_inserting(custom_count_threshold) ==
    /\ lib # NoValue
    /\ dep_stats = NoValue
    /\ error = "none"
    /\ LET r == map_and_write(lib, stats, reads, custom_count_threshold)
       IN  /\ call' = [op |-> "map_and_write",
                       arg |-> [custom_count_threshold |-> custom_count_threshold],
                       ret |-> r.ret]
           /\ rows' = r.rows
           /\ error' = r.ret.raised
           /\ dep_stats' = r.ret.value
    /\ reads' = [seq \in DOMAIN reads \cup {lib.targets[i].seq : i \in DOMAIN lib.targets}
                     |-> Get(reads, seq)]
    /\ UNCHANGED <<stats, exclude_qcfail, min_length, fmt, lib, report>>

\* main, lines 205-214: the count map is mapped onto the loaded library
MapAndWrite(custom_count_threshold) ==
    /\ lib # NoValue
    /\ dep_stats = NoValue
    /\ error = "none"
    /\ LET r == map_and_write(lib, stats, reads, custom_count_threshold)
       IN  /\ call' = [op |-> "map_and_write",
                       arg |-> [custom_count_threshold |-> custom_count_threshold],
                       ret |-> r.ret]
           /\ rows' = r.rows
           /\ error' = r.ret.raised
           /\ dep_stats' = r.ret.value
    /\ UNCHANGED <<stats, reads, exclude_qcfail, min_length, fmt, lib, report>>

InitLib ==
    /\ reads \in QueryCounters
    /\ stats = StatsOf(reads)
    /\ min_length \in LibMinLengths
    /\ exclude_qcfail = FALSE
    /\ fmt = "none"
    /\ error = "none"
    /\ call = NoCall
    /\ NoLibrary

NextLib ==
    \/ \E fp \in LibSources : Load(fp)
    \/ \E t \in CustomThresholds : MapAndWrite(t)

SpecLib == InitLib /\ [][NextLib]_vars

(***************************************************************************)
(* parse_fastq and parse_htsfile on a whole read file                      *)
(***************************************************************************)
\* the value of (stats, reads) and the exception, if any, that ended the parse
Parsed(s, counter, err) == [stats |-> s, reads |-> counter, error |-> err]

\* the closure call that ends the parse at the first discarded read
eval_read_stop_at_discard(acc, discard_qc, r) ==
    IF acc.error # "none" THEN acc
    ELSE IF r.raised # "none" THEN Parsed(acc.stats, acc.reads, r.raised)
    ELSE LET e == eval_read_info(acc.stats, discard_qc, r.value)
         IN  IF e.keep
             THEN Parsed(e.self, Incr(acc.reads, r.value.sequence), "none")
             ELSE Parsed(e.self, acc.reads, "stopped")

\* one call of the eval_read closure, r being the classifier's result; after
\* an exception nothing more is read
eval_read(acc, discard_qc, r) ==
    IF acc.error # "none" THEN acc
    ELSE IF r.raised # "none" THEN Parsed(acc.stats, acc.reads, r.raised)
    ELSE LET e == eval_read_info(acc.stats, discard_qc, r.value)
         IN  Parsed(e.self,
                    IF e.keep THEN Incr(acc.reads, r.value.sequence) ELSE acc.reads,
                    "none")

\* the loop of parse_htsfile over the records of the file
RECURSIVE parse_htsfile(_, _, _, _)
parse_htsfile(acc, records, discard_qc, min_len) ==
    IF Len(records) = 0 THEN acc
    ELSE parse_htsfile(
             eval_read(acc, discard_qc,
                       get_hts_read_info(min_len, skip_read_flag_of(discard_qc),
                                         Head(records))),
             Tail(records), discard_qc, min_len)

\* the loop of parse_fastq over the records of the file
RECURSIVE parse_fastq(_, _, _, _)
parse_fastq(acc, records, discard_qc, min_len) ==
    IF Len(records) = 0 THEN acc
    ELSE parse_fastq(
             eval_read(acc, discard_qc,
                       get_fastq_read_info(min_len, Head(records).seq,
                                           Head(records).qc_fail)),
             Tail(records), discard_qc, min_len)

\* records that pass the alphabet check: kept, QC-failed, secondary,
\* ambiguous, soft-clipped, and a second kept sequence
ValidHtsReads ==
    {[seq |-> <<"A">>, flag |-> {}, cigarstring |-> [present |-> FALSE, ops |-> <<>>]],
     [seq |-> <<"A">>, flag |-> {FQCFAIL}, cigarstring |-> [present |-> FALSE, ops |-> <<>>]],
     [seq |-> <<"A", "C">>, flag |-> {FSECONDARY},
      cigarstring |-> [present |-> TRUE, ops |-> <<"M">>]],
     [seq |-> <<"A", "N">>, flag |-> {}, cigarstring |-> [present |-> FALSE, ops |-> <<>>]],
     [seq |-> <<"A">>, flag |-> {}, cigarstring |-> [present |-> TRUE, ops |-> <<"S", "M">>]],
     [seq |-> <<"A", "C">>, flag |-> {}, cigarstring |-> [present |-> TRUE, ops |-> <<"M">>]]}

ValidFastqReads == [seq : {<<"A">>, <<"a", "C">>}, qc_fail : BOOLEAN]

ZeroStats == LibraryIndependentStats(<<Sample, 0, 0, 0, 0, 0, 0, 0, 0, 0>>).value

ParseFile(op, records, r) ==
    /\ call = NoCall
    /\ stats' = r.stats
    /\ reads' = r.reads
    /\ error' = r.error
    /\ call' = [op |-> op, arg |-> [records |-> records], ret |-> Return(NoValue)]
    /\ UNCHANGED <<exclude_qcfail, min_length, fmt, lib, rows, dep_stats, report>>

ParseHtsFile(records) ==
    /\ fmt = "HTS"
    /\ ParseFile("parse_htsfile", records,
                 parse_htsfile(Parsed(ZeroStats, EmptyCounter, "none"), records,
                               exclude_qcfail, min_length))

ParseFastqFile(records) ==
    /\ fmt = "FASTQ"
    /\ ParseFile("parse_fastq", records,
                 parse_fastq(Parsed(ZeroStats, EmptyCounter, "none"), records,
                             exclude_qcfail, min_length))

InitParse == Init

NextParse ==
    \/ \E records \in SeqsUpTo(ValidHtsReads, MaxStream) : ParseHtsFile(records)
    \/ \E records \in SeqsUpTo(ValidFastqReads, MaxStream) : ParseFastqFile(records)

SpecParse == InitParse /\ [][NextParse]_vars

(***************************************************************************)
(* main.py: the reads are counted, then the library is loaded and the      *)
(* counter's own count map and statistics are mapped onto it               *)
(***************************************************************************)
PipelineSources ==
    {<<>>,
     << <<"1", "\t", "p", "\t", "A">> >>,
     << <<"#", "h">>, <<"1", "\t", "p", "\t", "A">>, <<"2", "\t", "q", "\t", "A">> >>,
     << <<"1", "\t", "p", "\t", "A", "C">>, <<"2", "\t", "q", "\t", "a", "C">> >>}

PipelineThresholds == {None, Some(1)}

\* run_library_independent_counting is over before the library is opened and
\* before the statistics are written
CountFastqRead(read) == lib = NoValue /\ report = NoValue /\ FqEvalRead(read)

CountHtsRead(read) == lib = NoValue /\ report = NoValue /\ HtsEvalRead(read)

\* main, lines 191-199: with a library given, it is loaded after the counting
LoadLibrary(fp) == report = NoValue /\ Load(fp)

\* the last stage run even when an earlier stage has failed
WriteStats_after_error ==
    /\ report = NoValue
    /\ lib = NoValue \/ dep_stats # NoValue
    /\ report' = IF lib = NoValue THEN stats ELSE dep_stats
    /\ call' = [op |-> "write_stats", arg |-> NoValue, ret |-> Return(NoValue)]
    /\ UNCHANGED <<stats, reads, exclude_qcfail, min_length, fmt, error, lib, rows,
                   dep_stats>>

\* main, lines 216-219: the statistics report, written when no stage has
\* failed: the counter's statistics without a library, the statistics
\* map_and_write returned with one
WriteStats ==
    /\ error = "none"
    /\ report = NoValue
    /\ lib = NoValue \/ dep_stats # NoValue
    /\ report' = IF lib = NoValue THEN stats ELSE dep_stats
    /\ call' = [op |-> "write_stats", arg |-> NoValue, ret |-> Return(NoValue)]
    /\ UNCHANGED <<stats, reads, exclude_qcfail, min_length, fmt, error, lib, rows,
                   dep_stats>>

\* run_library_independent_counting fixes the QC policy: exclude_qcfail=False
InitPipeline == Init /\ exclude_qcfail = FALSE

NextPipeline ==
    \/ \E read \in FastqReads : CountFastqRead(read)
    \/ \E read \in HtsReads : CountHtsRead(read)
    \/ \E fp \in PipelineSources : LoadLibrary(fp)
    \/ \E t \in PipelineThresholds : MapAndWrite(t)
    \/ WriteStats

SpecPipeline == InitPipeline /\ [][NextPipeline]_vars

(***************************************************************************)
(* utils.py called on ascending arrays of counts                           *)
(***************************************************************************)
IsSorted(a) == \A i \in 1..(Len(a) - 1) : a[i] <= a[i + 1]

SortedArrays == {a \in SeqsUpTo(0..MaxCount, MaxArrayLen) : IsSorted(a)}

Median(sa) ==
    /\ call' = [op |-> "get_median_from_sorted", arg |-> [sa |-> sa],
                ret |-> get_median_from_sorted(sa)]
    /\ UNCHANGED <<stats, reads, exclude_qcfail, min_length, fmt, error, lib, rows,
                   dep_stats, report>>

GetStats(sa, gini_corr) ==
    /\ call' = [op |-> "get_stats", arg |-> [sa |-> sa, gini_corr |-> gini_corr],
                ret |-> get_stats(sa, gini_corr)]
    /\ UNCHANGED <<stats, reads, exclude_qcfail, min_length, fmt, error, lib, rows,
                   dep_stats, report>>

InitStats ==
    /\ InitCounter
    /\ NoLibrary
    /\ exclude_qcfail = FALSE
    /\ min_length = 0
    /\ fmt = "none"

NextStats ==
    \/ \E sa \in SortedArrays : Median(sa)
    \/ \E sa \in SortedArrays, gini_corr \in BOOLEAN : GetStats(sa, gini_corr)

SpecStats == InitStats /\ [][NextStats]_vars

(***************************************************************************)
(* Properties of the Target Library                                        *)
(***************************************************************************)
Loaded == lib # NoValue

TargetSeqs(l) == {l.targets[i].seq : i \in DOMAIN l.targets}

\* C8: in a loaded library the values of target_counts sum to the number of
\* targets, which is total_target_count; unique_target_count is the number of
\* distinct sequences and short_target_count the number of distinct sequences
\* shorter than the minimum length
C8_LibraryCounts ==
    Loaded =>
        /\ SumValues(lib.target_counts) = Len(lib.targets)
        /\ Len(lib.targets) = lib.total_target_count
        /\ unique_target_count(lib) = Cardinality(TargetSeqs(lib))
        /\ lib.short_target_count =
               Cardinality({seq \in TargetSeqs(lib) : Len(seq) < lib.min_length})

\* two synonymous records below the minimum length count as one short sequence
C8_Witness ==
    /\ Loaded
    /\ lib.min_length = 3
    /\ lib.total_target_count = 3
    /\ Get(lib.target_counts, <<"A", "A">>) = 2
    /\ lib.short_target_count = 2

\* C9: loading a source without a data record (no line at all, or only lines
\* that begin with '#') fails with InvalidLibraryError and yields no library
C9_EmptyLibraryIsInvalid ==
    (/\ call.op = "load"
     /\ \A i \in DOMAIN call.arg.fp :
            Len(call.arg.fp[i]) > 0 /\ call.arg.fp[i][1] = "#")
    => /\ call.ret.raised = "InvalidLibraryError"
       /\ lib = NoValue

\* C10: map_and_write writes one row per target, in the order of the targets,
\* short targets included; the row's count is the count map's entry for the
\* sequence or 0, its length the sequence length, its sample the sample name,
\* and is_unique is 1 exactly when target_counts of the sequence is 1
C10_RowPerTarget ==
    call.op = "map_and_write" =>
        /\ Len(rows) = Len(lib.targets)
        /\ \A i \in DOMAIN rows :
               LET target == lib.targets[i]
               IN  /\ rows[i].id = target.id
                   /\ rows[i].name = target.name
                   /\ rows[i].seq = target.seq
                   /\ rows[i].count = (IF target.seq \in DOMAIN reads
                                       THEN reads[target.seq] ELSE 0)
                   /\ rows[i].length = Len(target.seq)
                   /\ rows[i].sample = stats.sample_name
                   /\ rows[i].is_unique \in {0, 1}
                   /\ (rows[i].is_unique = 1) = (lib.target_counts[target.seq] = 1)

C10_Witness ==
    /\ call.op = "map_and_write"
    /\ lib.min_length = 2
    /\ Len(rows) = 3
    /\ rows[1].seq = <<"A">> /\ rows[1].count = 1 /\ rows[1].is_unique = 1
    /\ rows[2].seq = <<"A", "A">> /\ rows[2].count = 2 /\ rows[2].is_unique = 0
    /\ rows[3].id = <<"3">>

(***************************************************************************)
(* Properties of the Library Mapper                                        *)
(***************************************************************************)
IsMap == call.op = "map_and_write" /\ error = "none"

\* the distinct target sequences that reach the minimum length
Qualifying(l) == {seq \in TargetSeqs(l) : Len(seq) >= l.min_length}

\* the number of Target records that carry the sequence
GroupSize(l, seq) == Cardinality({i \in DOMAIN l.targets : l.targets[i].seq = seq})

RECURSIVE SumCounts(_, _)
SumCounts(seqs, counter) ==
    IF seqs = {} THEN 0
    ELSE LET seq == CHOOSE seq \in seqs : TRUE
         IN  Get(counter, seq) + SumCounts(seqs \ {seq}, counter)

\* C11: mapped_to_template_reads is the sum of the count map (default 0) over
\* the distinct target sequences that reach the minimum length, each once
\* however many targets share it; multimap_reads is the same sum over the
\* sequences carried by more than one target
C11_MappedAndMultimap ==
    IsMap =>
        /\ dep_stats.mapped_to_template_reads = SumCounts(Qualifying(lib), reads)
        /\ dep_stats.multimap_reads =
               SumCounts({seq \in Qualifying(lib) : GroupSize(lib, seq) > 1}, reads)

\* a unique sequence with 1 read and a pair of synonyms with 2 reads
C11_Witness ==
    /\ IsMap
    /\ lib.min_length = 0
    /\ Len(lib.targets) = 3
    /\ GroupSize(lib, <<"A", "A">>) = 2
    /\ GroupSize(lib, <<"A">>) = 1
    /\ dep_stats.mapped_to_template_reads = 3
    /\ dep_stats.multimap_reads = 2

\* C12: unmapped_reads = total_reads - mapped_to_template_reads in the
\* returned statistics, whatever the library, the count map and the threshold
C12_UnmappedReads ==
    IsMap =>
        dep_stats.unmapped_reads = stats.total_reads - dep_stats.mapped_to_template_reads

\* some reads match a qualifying target and some do not, with an excluded read
C12_Witness ==
    /\ IsMap
    /\ stats.input_reads > stats.total_reads
    /\ dep_stats.mapped_to_template_reads = 20
    /\ dep_stats.unmapped_reads = 90

\* C13: when the count map and the statistics mapped onto the library are
\* the ones the counter produced from a read stream, mapped_to_template_reads
\* is at most total_reads, so unmapped_reads is not negative
C13_MappedAtMostTotal ==
    IsMap =>
        /\ dep_stats.mapped_to_template_reads <= stats.total_reads
        /\ dep_stats.unmapped_reads >= 0

\* two reads kept, one of them a target, and the other not in the library
C13_Witness ==
    /\ IsMap
    /\ DOMAIN reads = {<<"A">>, <<"A", "C">>}
    /\ stats.total_reads = 2
    /\ dep_stats.mapped_to_template_reads = 1
    /\ dep_stats.unmapped_reads = 1

\* the number of qualifying unique sequences whose count is below t
CountsBelow(l, counter, t) ==
    Cardinality({seq \in Qualifying(l) : Get(counter, seq) < t})

\* C14: with at least one qualifying target, zero_count_templates is the
\* number of qualifying unique sequences with count 0, low_count_templates_lt_15
\* and _lt_30 the numbers with a count below 15 and below 30, and
\* low_count_templates_user the pair of the custom threshold and the number
\* with a count below it, or None without a custom threshold; for every
\* custom threshold from 0 on
C14_ThresholdCounts ==
    (IsMap /\ Qualifying(lib) # {}) =>
        LET t_c == call.arg.custom_count_threshold
        IN  /\ dep_stats.zero_count_templates = CountsBelow(lib, reads, 1)
            /\ dep_stats.low_count_templates_lt_15 = CountsBelow(lib, reads, 15)
            /\ dep_stats.low_count_templates_lt_30 = CountsBelow(lib, reads, 30)
            /\ dep_stats.low_count_templates_user =
                   (IF t_c = None THEN None
                    ELSE <<t_c[1], CountsBelow(lib, reads, t_c[1])>>)

\* C15: when no unique target sequence reaches the minimum length,
\* map_and_write does not raise; it writes a row for every target and returns
\* mapped_to_template_reads, multimap_reads, mean, median, Gini coefficient and
\* every threshold count at 0, with unmapped_reads = total_reads
C15_NoQualifyingTarget ==
    (call.op = "map_and_write" /\ Qualifying(lib) = {}) =>
        /\ call.ret.raised = "none"
        /\ Len(rows) = Len(lib.targets)
        /\ dep_stats.mapped_to_template_reads = 0
        /\ dep_stats.multimap_reads = 0
        /\ dep_stats.mean_count_per_template = Frac(0, 1)
        /\ dep_stats.median_count_per_template = Frac(0, 1)
        /\ dep_stats.gini_coefficient = Frac(0, 1)
        /\ dep_stats.zero_count_templates = 0
        /\ dep_stats.low_count_templates_lt_15 = 0
        /\ dep_stats.low_count_templates_lt_30 = 0
        /\ \/ dep_stats.low_count_templates_user = None
           \/ dep_stats.low_count_templates_user =
                  <<call.arg.custom_count_threshold[1], 0>>
        /\ dep_stats.unmapped_reads = stats.total_reads

\* two short synonyms and reads of the sequence of one of them
C15_Witness ==
    /\ call.op = "map_and_write"
    /\ Qualifying(lib) = {}
    /\ Len(rows) = 2
    /\ rows[1].count = 20
    /\ call.arg.custom_count_threshold = Some(15)
    /\ dep_stats.unmapped_reads = 110

\* C16: map_and_write leaves the count map, the TargetLibrary and the input
\* statistics as they were, and every library-independent field of the
\* returned statistics has the value of the same field of the input
C16_MapFrame ==
    [][call'.op = "map_and_write" =>
        /\ reads' = reads
        /\ lib' = lib
        /\ stats' = stats
        /\ call'.ret.raised = "none"
        /\ \A i \in DOMAIN StatsFields :
               dep_stats'[StatsFields[i]] = stats[StatsFields[i]]
    ]_vars

\* a target without reads and a read sequence that is no target
C16_Witness ==
    /\ call.op = "map_and_write"
    /\ <<"A">> \in TargetSeqs(lib)
    /\ DOMAIN reads = {<<"A", "A">>, <<"C">>, <<"G">>}
    /\ dep_stats.masked_reads = 1
    /\ dep_stats.total_reads = 110

(***************************************************************************)
(* Properties of the statistics                                            *)
(***************************************************************************)
IsMedian == call.op = "get_median_from_sorted"
IsStats == call.op = "get_stats"

\* the float f is the number num / den
FracEq(f, num, den) == f.den # 0 /\ f.num * den = num * f.den

\* a[i] with the indices counted from 0
At(a, i) == a[i + 1]

\* C17: the median of an ascending array of n > 0 counts is a[0] when n = 1,
\* (a[n/2 - 1] + a[n/2]) / 2 when n is even and a[(n-1)/2] when n is odd
C17_Median ==
    (IsMedian /\ Len(call.arg.sa) > 0) =>
        LET a == call.arg.sa
            n == Len(a)
        IN  /\ call.ret.raised = "none"
            /\ IF n = 1 THEN FracEq(call.ret.value, At(a, 0), 1)
               ELSE IF n % 2 = 0
               THEN FracEq(call.ret.value, At(a, n \div 2 - 1) + At(a, n \div 2), 2)
               ELSE FracEq(call.ret.value, At(a, (n - 1) \div 2), 1)

\* an even length whose central elements differ
C17_Witness ==
    /\ IsMedian
    /\ call.arg.sa = <<0, 1, 2, 3>>
    /\ call.ret.value = Frac(3, 2)

\* the sum over the array of a[i] * (i + 1), ranks counted from 1
RankSum(a) == SumSeq([i \in DOMAIN a |-> a[i] * i])

\* C18: for an ascending array of n > 0 counts with sum m, get_stats reports
\* the total m and a mean with mean * n = m; the Gini coefficient is 0 when
\* m = 0 and otherwise a number with gini * d * m = 2 * RankSum - (n + 1) * m,
\* where d = n for the uncorrected and d = n - 1 for the corrected variant
C18_GiniAndMean ==
    (IsStats /\ Len(call.arg.sa) > 0) =>
        LET a == call.arg.sa
            n == Len(a)
            m == SumSeq(a)
            d == IF call.arg.gini_corr THEN n - 1 ELSE n
            total == call.ret.value[1]
            mean == call.ret.value[2]
            gini == call.ret.value[4]
        IN  /\ call.ret.raised = "none"
            /\ total = m
            /\ FracEq(mean, m, n)
            /\ IF m = 0 THEN FracEq(gini, 0, 1)
               ELSE /\ gini.den # 0
                    /\ gini.num * d * m = (2 * RankSum(a) - (n + 1) * m) * gini.den

\* C19: the uncorrected Gini coefficient of an ascending array of n > 0 counts
\* lies in [0, 1]; it is 0 for a uniform array, (n - 1) / n for an array whose
\* only non-zero element is the last (n > 1), and never above (n - 1) / n
C19_GiniRange ==
    (IsStats /\ Len(call.arg.sa) > 0 /\ ~call.arg.gini_corr) =>
        LET a == call.arg.sa
            n == Len(a)
            gini == call.ret.value[4]
        IN  /\ call.ret.raised = "none"
            /\ gini.den > 0
            /\ 0 <= gini.num /\ gini.num <= gini.den
            /\ (\A i \in DOMAIN a : a[i] = a[1]) => gini.num = 0
            /\ (n > 1 /\ a[n] > 0 /\ \A i \in 1..(n - 1) : a[i] = 0)
                   => FracEq(gini, n - 1, n)
            /\ gini.num * n <= (n - 1) * gini.den

\* all the counts on the last of four elements: 3/4
C19_Witness ==
    /\ IsStats
    /\ ~call.arg.gini_corr
    /\ call.arg.sa = <<0, 0, 0, 3>>
    /\ FracEq(call.ret.value[4], 3, 4)

\* C20: get_median_from_sorted and get_stats called on an array of length 0
\* raise UnsupportedData and return nothing
C20_EmptyArray ==
    ((IsMedian \/ IsStats) /\ Len(call.arg.sa) = 0) =>
        /\ call.ret.raised = "UnsupportedData"
        /\ call.ret.value = NoValue

C20_Witness ==
    /\ IsStats
    /\ call.arg.sa = <<>>
    /\ call.ret.raised = "UnsupportedData"

(***************************************************************************)
(* Properties of the whole run                                             *)
(***************************************************************************)
\* C21: mapped against an empty count map, every target gets a row with
\* count 0; and whatever the count map, the is_unique flag of a row is the one
\* the empty count map gives, 1 exactly when one target carries the sequence
C21_EmptyCountMap ==
    IsMap =>
        /\ Len(rows) = Len(lib.targets)
        /\ reads = EmptyCounter => \A i \in DOMAIN rows : rows[i].count = 0
        /\ \A i \in DOMAIN rows :
               /\ rows[i].is_unique =
                      WriteRows(lib, stats.sample_name, EmptyCounter)[i].is_unique
               /\ rows[i].is_unique = 1 <=> GroupSize(lib, lib.targets[i].seq) = 1

\* a unique target and two synonyms, no reads
C21_Witness ==
    /\ IsMap
    /\ reads = EmptyCounter
    /\ Len(rows) = 3
    /\ rows[1].is_unique = 1 /\ rows[1].count = 0
    /\ rows[2].is_unique = 0 /\ rows[3].is_unique = 0

\* C22: the stages of a run follow the order count reads, load library,
\* map, write statistics: the counter does not change once the library is
\* loaded, rows and mapped statistics exist only for a loaded library, and the
\* report is written last, from the mapped statistics when there is a
\* library.  An error is fatal: after it no state changes, a failed load
\* leaves no row and no report, a failed count leaves no later output at all
C22_StageOrder ==
    [][/\ (lib # NoValue \/ report # NoValue) => (stats' = stats /\ reads' = reads)
       /\ (rows' # <<>> \/ dep_stats' # NoValue) => lib' # NoValue
       /\ dep_stats # NoValue => (lib' = lib /\ rows' = rows /\ dep_stats' = dep_stats)
       /\ report' # NoValue =>
              /\ error' = "none"
              /\ IF lib' = NoValue THEN report' = stats' ELSE report' = dep_stats'
       /\ report # NoValue => UNCHANGED vars
       /\ error # "none" => UNCHANGED vars
       /\ (call'.op = "load" /\ error' # "none") =>
              (lib' = NoValue /\ rows' = <<>> /\ dep_stats' = NoValue /\ report' = NoValue)
       /\ (call'.op \in {"fq.eval_read", "hts.eval_read"} /\ error' # "none") =>
              (lib' = NoValue /\ rows' = <<>> /\ dep_stats' = NoValue /\ report' = NoValue)
    ]_vars

\* a read has been counted and the load of an empty library file has failed
C22_Witness ==
    /\ call.op = "load"
    /\ error = "IndexError"
    /\ stats.total_reads = 1
    /\ report = NoValue
    /\ rows = <<>>

\* the lines of a source that hold a record: not blank, not beginning with '#'
DataLines(fp) == SelectSeq(fp, LAMBDA line : Len(line) > 0 /\ line[1] # "#")

\* C23: a successful load yields one Target per data line of the source, in
\* file order, lines beginning with '#' yielding none; total_target_count is
\* the number of data lines
C23_TargetPerDataLine ==
    (call.op = "load" /\ call.ret.raised = "none") =>
        LET data == DataLines(call.arg.fp)
        IN  /\ lib.total_target_count = Len(data)
            /\ Len(lib.targets) = Len(data)
            /\ \A i \in DOMAIN data :
                   LET t == split(data[i], "\t", 3)
                   IN  lib.targets[i] = Target(t[1], t[2], t[3])

IsHtsRead == call.op = "hts.eval_read" /\ call.ret.raised = "none"

\* C24, as stated: the classifier of alignment records sets is_masked exactly
\* when the sequence has a lower-case base or ambiguity code, the flag
\* read_qc.is_masked gives the same sequence for a FASTQ record
C24_SameMaskingRule ==
    IsHtsRead => (call.ret.value.is_masked <=> is_masked(call.arg.seq))

\* C24, amended: the classifier of alignment records sets is_masked exactly
\* when the record has a CIGAR string holding a soft clip 'S', whatever the
\* letter case of its sequence; is_ambiguous, is_short and the sequence are set
\* as for a FASTQ record
C24_HtsMaskedBySoftClip ==
    IsHtsRead =>
        /\ call.ret.value.is_masked <=>
               (call.arg.cigarstring.present /\ "S" \in Range(call.arg.cigarstring.ops))
        /\ call.ret.value.is_ambiguous <=> is_ambiguous(call.arg.seq)
        /\ call.ret.value.is_short <=> Len(call.arg.seq) < min_length
        /\ call.ret.value.sequence = call.arg.seq

\* a lower-case base without a soft clip: not masked, and the read is kept
C24_Witness ==
    /\ IsHtsRead
    /\ call.arg.seq = <<"a", "C">>
    /\ ~call.arg.cigarstring.present
    /\ ~call.ret.value.is_masked
    /\ Get(reads, <<"a", "C">>) = 1

\* C25: after any prefix of the read stream the values of the count map sum
\* to total_reads and each is at least 1; a kept read adds 1 to the entry of
\* its sequence, creating it if needed, and changes no other entry; a
\* discarded or rejected read leaves the count map as it was
C25_CountMapOfKeptReads ==
    [][call'.op \in {"fq.eval_read", "hts.eval_read"} =>
        /\ SumValues(reads') = stats'.total_reads
        /\ \A seq \in DOMAIN reads' : reads'[seq] >= 1
        /\ IF stats'.total_reads = stats.total_reads + 1
           THEN /\ DOMAIN reads' = DOMAIN reads \cup {call'.arg.seq}
                /\ reads'[call'.arg.seq] = Get(reads, call'.arg.seq) + 1
                /\ \A seq \in DOMAIN reads : seq # call'.arg.seq => reads'[seq] = reads[seq]
           ELSE /\ stats'.total_reads = stats.total_reads
                /\ reads' = reads
    ]_vars

\* a kept read followed by a discarded read with another sequence
C25_Witness ==
    /\ IsHtsRead
    /\ call.arg.seq = <<"A", "N">>
    /\ stats.total_excluded_reads = 1
    /\ stats.total_reads = 1
    /\ DOMAIN reads = {<<"A", "C">>}

\* the orders in which n records can be read
ReadOrders(n) == {p \in [1..n -> 1..n] : \A i, j \in 1..n : p[i] = p[j] => i = j}

Permuted(records, p) == [i \in DOMAIN records |-> records[p[i]]]

\* C26: the statistics and the count map left by a file of valid reads are
\* those left by every permutation of its records
C26_OrderOfReads ==
    /\ call.op = "parse_htsfile" =>
           \A p \in ReadOrders(Len(call.arg.records)) :
               LET r == parse_htsfile(Parsed(ZeroStats, EmptyCounter, "none"),
                                      Permuted(call.arg.records, p),
                                      exclude_qcfail, min_length)
               IN  r.stats = stats /\ r.reads = reads
    /\ call.op = "parse_fastq" =>
           \A p \in ReadOrders(Len(call.arg.records)) :
               LET r == parse_fastq(Parsed(ZeroStats, EmptyCounter, "none"),
                                    Permuted(call.arg.records, p),
                                    exclude_qcfail, min_length)
               IN  r.stats = stats /\ r.reads = reads

\* three different records: one kept, one discarded, one kept again
C26_Witness ==
    /\ call.op = "parse_htsfile"
    /\ error = "none"
    /\ Len(call.arg.records) = 3
    /\ call.arg.records[1].seq # call.arg.records[3].seq
    /\ call.arg.records[2].seq = <<"A", "N">>
    /\ stats.total_reads = 2
    /\ stats.total_excluded_reads = 1
    /\ Cardinality(DOMAIN reads) = 2

\* the only flag set on the classified read is is_qc_fail
OnlyQcFail(ri) ==
    /\ ri.is_qc_fail
    /\ ~ri.is_masked /\ ~ri.is_ambiguous /\ ~ri.is_short /\ ~ri.is_empty /\ ~ri.is_flagged

\* an alignment record that failed the vendor's QC and has nothing else
\* against it: no other flag bit, no soft clip, unambiguous DNA, long enough
QcFailRecord(read) ==
    /\ read.flag = {FQCFAIL}
    /\ ~(read.cigarstring.present /\ "S" \in Range(read.cigarstring.ops))
    /\ is_dna(read.seq)
    /\ ~is_ambiguous(read.seq)
    /\ Len(read.seq) >= min_length

====
